---- MODULE Spec2Model ----
(***************************************************************************)
(* State-machine model of the BioTutor user/school management backend:     *)
(* the School and User tables with their TeacherProfile / StudentProfile   *)
(* extension rows, the role permission classes of users/permissions.py,    *)
(* and the REST handlers of users/views.py and schools/views.py.           *)
(* Each action is one HTTP request handled to completion.                  *)
(***************************************************************************)
EXTENDS Integers, Sequences, FiniteSets, TLC

(* ---------------------------- bounds ---------------------------------- *)
MaxBatch == 2
MaxInFlight == 2

(* ------------------------- value universes ----------------------------- *)
None == 0
Anonymous == 0

Roles == {"SUPER_ADMIN", "SCHOOL_ADMIN", "TEACHER", "STUDENT"}
CLASS_LEVEL_CHOICES == {"S1", "S2", "S3", "S4", "S5", "S6"}

\* an email is <<local part, domain part>>
SuperEmail == <<"root", "x.com">>
Emails == {<<"a", "x.com">>, <<"b", "x.com">>}
SchoolNames == {"kla", "gulu"}

Lower(s) ==
    CASE s = "X.com" -> "x.com"
      [] s = "KLA" -> "kla"
      [] OTHER -> s

\* BaseUserManager.normalize_email lower-cases the domain part only
NormalizeEmail(e) == <<e[1], Lower(e[2])>>

\* django.utils.text.slugify on the names used here: lower-casing
slugify(n) == Lower(n)

\* set_password stores a salted hash, check_password compares against it
MakePassword(p) == <<"hash", p>>
DefaultPassword == "BioTutor2025!"

DigitStr == <<"0", "1", "2", "3", "4", "5", "6", "7", "8", "9">>

RECURSIVE ToDec(_)
ToDec(n) == IF n < 10 THEN DigitStr[n + 1]
            ELSE ToDec(n \div 10) \o DigitStr[(n % 10) + 1]

RECURSIVE ZeroPad(_, _)
ZeroPad(s, w) == IF Len(s) >= w THEN s ELSE ZeroPad("0" \o s, w)

\* f"STD{user.id}": the id without padding
StdIdUnpadded(id) == "STD" \o ToDec(id)

\* f"STD{user.id:06d}"
StdId(id) == "STD" \o ZeroPad(ToDec(id), 6)

(* ------------------------------ state ---------------------------------- *)
VARIABLES
    schools,            \* table schools: sequence of rows, pk = index
    users,              \* table users: sequence of rows, pk = index
    teacher_profiles,   \* table teacher_profiles: set of rows
    student_profiles,   \* table student_profiles: set of rows
    last,               \* the response to the request handled last
    curriculum_classes, \* table curriculum_classes: sequence of rows, pk = index
    topics,             \* table topics: sequence of rows, pk = index
    outstanding_tokens, \* the refresh tokens issued: set of rows
    blacklisted_tokens, \* the refresh tokens blacklisted: set of token ids
    pending             \* the requests in flight between validation and insert

vars == <<schools, users, teacher_profiles, student_profiles, last,
          curriculum_classes, topics, outstanding_tokens, blacklisted_tokens,
          pending>>
db == <<schools, users, teacher_profiles, student_profiles>>

\* the tables of the content app
content == <<curriculum_classes, topics>>

\* the tables of the token blacklist
tokens == <<outstanding_tokens, blacklisted_tokens>>

\* what the user and school views never touch
elsewhere == <<content, tokens, pending>>

\* the content tables after migration: empty
ContentInit ==
    /\ curriculum_classes = <<>>
    /\ topics = <<>>

\* no token issued yet
TokensInit ==
    /\ outstanding_tokens = {}
    /\ blacklisted_tokens = {}

ElsewhereInit == ContentInit /\ TokensInit /\ pending = <<>>

NoPayload == [none |-> TRUE]
NoErrors == {}

\* op: the view; status: the HTTP status; pk: the row the URL names (0: none);
\* errors: the serializer's error messages; data: the data the handler went
\* on with, for a destroy the row get_object found (NoPayload when it did not
\* get that far);
\* failed_at: the entry of a batch at which the creation loop raised (0: none)
Response(op, status, pk, errors, data, failed_at) ==
    [op |-> op, status |-> status, pk |-> pk, errors |-> errors,
     data |-> data, failed_at |-> failed_at]

AnonymousUser == [kind |-> "AnonymousUser", id |-> 0]

\* request.user of a request sent by requester r
RequestUser(r) == IF r = Anonymous THEN AnonymousUser ELSE users[r]

\* only an active account can authenticate; anybody can send a request
\* without credentials
Requesters == {Anonymous} \cup {i \in 1..Len(users) : users[i].is_active}

is_authenticated(u) == u.kind = "User"

(* ------------------- users/permissions.py ------------------------------ *)
\* hasattr(obj, ...) for the objects of this application
HasSchoolAttr(obj) == obj.kind = "User"
HasRoleAttr(obj) == obj.kind = "User"
HasUserAttr(obj) == obj.kind \in {"TeacherProfile", "StudentProfile"}

IsSuperAdmin(u) == is_authenticated(u) /\ u.role = "SUPER_ADMIN"
IsSchoolAdmin(u) == is_authenticated(u) /\ u.role = "SCHOOL_ADMIN"
IsTeacher(u) == is_authenticated(u) /\ u.role = "TEACHER"
IsStudent(u) == is_authenticated(u) /\ u.role = "STUDENT"
\* a role-in-set check whose set also holds TEACHER
IsStaff(u) ==
    is_authenticated(u) /\ u.role \in {"SUPER_ADMIN", "SCHOOL_ADMIN", "TEACHER"}

IsSuperAdminOrSchoolAdmin(u) ==
    is_authenticated(u) /\ u.role \in {"SUPER_ADMIN", "SCHOOL_ADMIN"}

\* a school comparison that does not look at the requester's role
IsSameSchoolAnyRole(u, obj) ==
    IF u.role = "SUPER_ADMIN" THEN TRUE
    ELSE IF HasSchoolAttr(obj) THEN obj.school = u.school
    ELSE FALSE

IsSameSchool(u, obj) ==
    IF u.role = "SUPER_ADMIN" THEN TRUE
    ELSE IF u.role = "SCHOOL_ADMIN"
         THEN IF HasSchoolAttr(obj) THEN obj.school = u.school
              ELSE IF HasRoleAttr(obj) THEN obj.school = u.school
              ELSE FALSE
         ELSE FALSE

\* an ownership check that lets every requester at every profile
IsOwnerOrAdminAnyProfile(u, obj) ==
    IF u.role \in {"SUPER_ADMIN", "SCHOOL_ADMIN"} THEN TRUE
    ELSE IF HasUserAttr(obj) THEN TRUE
    ELSE obj.kind = u.kind /\ obj.id = u.id

IsOwnerOrAdmin(u, obj) ==
    IF u.role \in {"SUPER_ADMIN", "SCHOOL_ADMIN"} THEN TRUE
    ELSE IF HasUserAttr(obj) THEN obj.user = u.id
    ELSE obj.kind = u.kind /\ obj.id = u.id

\* the status DRF answers when has_permission denies the request
Denied(u) == IF is_authenticated(u) THEN 403 ELSE 401

(* --------------------------- the tables -------------------------------- *)
UserRow(id, email, first_name, role, school, password) ==
    [kind |-> "User", id |-> id, email |-> email, first_name |-> first_name,
     role |-> role, school |-> school, is_active |-> TRUE,
     password |-> MakePassword(password)]

SchoolRow(id, name) ==
    [kind |-> "School", id |-> id, name |-> name, slug |-> "",
     is_active |-> TRUE]

TeacherProfileRow(uid) == [kind |-> "TeacherProfile", user |-> uid]

\* parent_email and parent_phone are blank unless the caller sets them
StudentProfileRow(uid, class_level, student_id, phone_number) ==
    [kind |-> "StudentProfile", user |-> uid, class_level |-> class_level,
     student_id |-> student_id, phone_number |-> phone_number,
     parent_email |-> "", parent_phone |-> ""]

UserIds == 1..Len(users)
SchoolPks == 1..Len(schools)
EmailExists(us, e) == \E i \in 1..Len(us) : us[i].email = e

\* a student_profiles table without the unique constraint on student_id
StudentIdNeverExists(sp, sid) == FALSE

StudentIdExists(sp, sid) == \E p \in sp : p.student_id = sid

\* a save that derives the slug from the name every time
SchoolSaveAlwaysSlugify(s) == [s EXCEPT !.slug = slugify(s.name)]

\* School.save: the slug is derived from the name when it is empty
SchoolSave(s) == IF s.slug = "" THEN [s EXCEPT !.slug = slugify(s.name)] ELSE s

\* a look-up that answers the default whatever the dictionary holds
GetDefaultOnly(e, key, default) == default

\* dict.get(key, default); a payload or a batch entry is a dictionary: keys
\* is the set of keys it has, the other fields are the values of those keys
Get(e, key, default) == IF key \in e.keys THEN e[key] ELSE default

ErrorIf(cond, message) == IF cond THEN {message} ELSE {}

\* a request the handler turns down: nothing is written
Reject(op, status, pk, errors) ==
    /\ last' = Response(op, status, pk, errors, NoPayload, 0)
    /\ UNCHANGED db
    /\ UNCHANGED elsewhere

(* ------------- users/serializers.py: UserRegistrationSerializer -------- *)
\* a registration payload: [email, first_name, role, school, password,
\* password_confirm]; school is None or a primary key

\* field validation of the ModelSerializer: the UniqueValidator of
\* User.email (an exact match) and the PrimaryKeyRelatedField of school
RegistrationFieldErrors(p) ==
    ErrorIf(EmailExists(users, p.email),
            "email: user with this email already exists.")
    \cup
    ErrorIf(~(p.school = None \/ p.school \in SchoolPks),
            "school: Invalid pk - object does not exist.")

\* a validate that compares the passwords and has no rule on role and school
ValidatePasswordsOnly(p) ==
    IF p.password # p.password_confirm
    THEN {"password: Password fields didn't match."}
    ELSE NoErrors

\* UserRegistrationSerializer.validate
RegistrationValidate(p) ==
    IF p.password # p.password_confirm
    THEN {"password: Password fields didn't match."}
    ELSE IF p.role = "SUPER_ADMIN" /\ p.school # None
    THEN {"school: Super Admin cannot be assigned to a school."}
    ELSE IF p.role # "SUPER_ADMIN" /\ p.school = None
    THEN {"school: This role requires a school assignment."}
    ELSE NoErrors

\* is_valid: validate runs only when every field passed
RegistrationErrors(p) ==
    IF RegistrationFieldErrors(p) # NoErrors THEN RegistrationFieldErrors(p)
    ELSE RegistrationValidate(p)

\* the outcome of a handler: the tables it leaves and the status it answers
Outcome(us, tp, sp, status) ==
    [users |-> us, teacher_profiles |-> tp, student_profiles |-> sp,
     status |-> status, failed_at |-> 0]

\* a create on a users table without the unique constraint on email
RegistrationCreateUnconstrained(vd) ==
    LET id == Len(users) + 1
        user == UserRow(id, vd.email, vd.first_name, vd.role, vd.school,
                        vd.password)
    IN  [users |-> Append(users, user), teacher_profiles |-> teacher_profiles,
         student_profiles |-> student_profiles, status |-> 201, failed_at |-> 0]

\* UserRegistrationSerializer.create on the validated data vd; every ORM
\* call commits on its own, so a failing insert leaves the earlier ones
RegistrationCreate(vd) ==
    LET id == Len(users) + 1
        user == UserRow(id, vd.email, vd.first_name, vd.role, vd.school,
                        vd.password)
        us == Append(users, user)
    IN  IF EmailExists(users, vd.email)
        THEN Outcome(users, teacher_profiles, student_profiles, 500)
        ELSE IF user.role = "TEACHER"
        THEN Outcome(us, teacher_profiles \cup {TeacherProfileRow(id)},
                     student_profiles, 201)
        ELSE IF user.role = "STUDENT"
        THEN IF StudentIdExists(student_profiles, StdId(id))
             THEN Outcome(us, teacher_profiles, student_profiles, 500)
             ELSE Outcome(us, teacher_profiles,
                          student_profiles \cup
                              {StudentProfileRow(id, "S1", StdId(id), "")},
                          201)
        ELSE Outcome(us, teacher_profiles, student_profiles, 201)

\* serializer.save(**kwargs): the view's keyword arguments override the
\* validated data
SchoolAdminSaved(u, p) == [p EXCEPT !.role = "SCHOOL_ADMIN"]
\* a perform_create that passes the school and leaves the role to the payload
TeacherSavedWithPayloadRole(u, p) == [p EXCEPT !.school = u.school]
TeacherSaved(u, p) == [p EXCEPT !.role = "TEACHER", !.school = u.school]
\* a perform_create that forces the role and leaves the school to the payload
StudentSavedWithPayloadSchool(u, p) == [p EXCEPT !.role = "STUDENT"]
StudentSaved(u, p) == [p EXCEPT !.role = "STUDENT", !.school = u.school]

Apply(op, out, data) ==
    /\ users' = out.users
    /\ teacher_profiles' = out.teacher_profiles
    /\ student_profiles' = out.student_profiles
    /\ last' = Response(op, out.status, 0, NoErrors, data, out.failed_at)
    /\ UNCHANGED schools
    /\ UNCHANGED elsewhere

(* ------------------ users/views.py: the create views ------------------- *)
\* CreateAPIView.create with the registration serializer, for a requester
\* the view's permission class lets in: is_valid, then perform_create with
\* the data the view saves
RegistrationView(op, p, saved) ==
    IF RegistrationErrors(p) # NoErrors
    THEN Reject(op, 400, 0, RegistrationErrors(p))
    ELSE Apply(op, RegistrationCreate(saved), p)

SchoolAdminCreate(r, p) ==
    /\ IsSuperAdmin(RequestUser(r))
    /\ RegistrationView("SchoolAdminCreate", p, SchoolAdminSaved(RequestUser(r), p))

TeacherCreate(r, p) ==
    /\ IsSchoolAdmin(RequestUser(r))
    /\ RegistrationView("TeacherCreate", p, TeacherSaved(RequestUser(r), p))

StudentCreate(r, p) ==
    /\ IsSchoolAdmin(RequestUser(r))
    /\ RegistrationView("StudentCreate", p, StudentSaved(RequestUser(r), p))

(* ---------------- bulk student creation -------------------------------- *)
EmptyEmail == <<"", "">>
RequiredFields == <<"email", "first_name", "last_name", "class_level">>

Range(f) == {f[i] : i \in DOMAIN f}

\* the first required field entry e lacks, in the order the code looks
MissingField(e) ==
    LET missing == {i \in DOMAIN RequiredFields : RequiredFields[i] \notin e.keys}
    IN  RequiredFields[CHOOSE i \in missing : \A j \in missing : i <= j]

\* the checks on one entry without the look-up of the email in the users table
EntryErrorWithoutEmailLookup(e) ==
    IF ~(Range(RequiredFields) \subseteq e.keys)
    THEN <<"Missing required field", MissingField(e)>>
    ELSE IF e.class_level \notin CLASS_LEVEL_CHOICES
    THEN <<"Invalid class level">>
    ELSE <<>>

\* the checks validate_students makes on one entry, against the users table
EntryError(e) ==
    IF ~(Range(RequiredFields) \subseteq e.keys)
    THEN <<"Missing required field", MissingField(e)>>
    ELSE IF e.email # EmptyEmail /\ EmailExists(users, e.email)
    THEN <<"Email already exists">>
    ELSE IF e.class_level \notin CLASS_LEVEL_CHOICES
    THEN <<"Invalid class level">>
    ELSE <<>>

\* BulkStudentCreateSerializer: the error of the first entry that has one;
\* the list itself may not be empty
BulkErrors(batch) ==
    LET bad == {k \in 1..Len(batch) : EntryError(batch[k]) # <<>>}
    IN  IF Len(batch) = 0 THEN {<<0, "This list may not be empty.">>}
        ELSE IF bad = {} THEN NoErrors
        ELSE LET k == CHOOSE i \in bad : \A j \in bad : i <= j
             IN  {<<k>> \o EntryError(batch[k])}

BulkOutcome(us, sp, status, failed_at) ==
    [users |-> us, teacher_profiles |-> teacher_profiles,
     student_profiles |-> sp, status |-> status, failed_at |-> failed_at]

\* the loop of BulkStudentCreateView.post from entry k on: create_user, then
\* StudentProfile.objects.create; an exception ends the request with 500 and
\* what was inserted before stays
RECURSIVE BulkLoop(_, _, _, _, _)
BulkLoop(batch, k, us, sp, school) ==
    IF k > Len(batch) THEN BulkOutcome(us, sp, 201, 0)
    ELSE
    LET e == batch[k]
        email == NormalizeEmail(e.email)
        id == Len(us) + 1
        user == UserRow(id, email, e.first_name, "STUDENT", school,
                        Get(e, "password", DefaultPassword))
        us2 == Append(us, user)
        profile == [StudentProfileRow(id, e.class_level,
                                      Get(e, "student_id", StdId(id)),
                                      Get(e, "phone_number", ""))
                       EXCEPT !.parent_email = Get(e, "parent_email", ""),
                              !.parent_phone = Get(e, "parent_phone", "")]
    IN  IF e.email = EmptyEmail \/ EmailExists(us, email)
        THEN BulkOutcome(us, sp, 500, k)
        ELSE IF StudentIdExists(sp, profile.student_id)
        THEN BulkOutcome(us2, sp, 500, k)
        ELSE BulkLoop(batch, k + 1, us2, sp \cup {profile}, school)

\* the loop inside transaction.atomic: a failure rolls every insert back
BulkCreateStudentsAtomic(u, batch) ==
    LET out == BulkLoop(batch, 1, users, student_profiles, u.school)
    IN  IF out.status = 201 THEN out
        ELSE BulkOutcome(users, student_profiles, out.status, out.failed_at)

BulkCreateStudents(u, batch) ==
    BulkLoop(batch, 1, users, student_profiles, u.school)

BulkStudentCreate(r, batch) ==
    /\ IsSchoolAdmin(RequestUser(r))
    /\ IF BulkErrors(batch) # NoErrors
       THEN Reject("BulkStudentCreate", 400, 0, BulkErrors(batch))
       ELSE Apply("BulkStudentCreate", BulkCreateStudents(RequestUser(r), batch),
                  batch)

(* ------------- UserDetailView / SchoolUserDetailView ------------------- *)
\* a serializer whose fields also hold email, role and school
UserUpdatedAnyField(user, p) ==
    [user EXCEPT !.first_name = Get(p, "first_name", @),
                 !.is_active = Get(p, "is_active", @),
                 !.email = Get(p, "email", @),
                 !.role = Get(p, "role", @),
                 !.school = Get(p, "school", @)]

\* UserUpdateSerializer: first_name, last_name, is_active, each applied when
\* the payload has it; any other key of the payload is ignored
UserUpdated(user, p) ==
    [user EXCEPT !.first_name = Get(p, "first_name", @),
                 !.is_active = Get(p, "is_active", @)]

\* a destroy that flips the flag
UserDeactivatedToggling(user) == [user EXCEPT !.is_active = ~@]

\* destroy: user.is_active = False; user.save()
UserDeactivated(user) == [user EXCEPT !.is_active = FALSE]

\* a save that deletes the profiles of a user it deactivates
SaveUserDroppingProfiles(op, status, pk, data, user) ==
    /\ users' = [users EXCEPT ![pk] = user]
    /\ teacher_profiles' =
           {tp \in teacher_profiles : tp.user # pk \/ user.is_active}
    /\ student_profiles' =
           {sp \in student_profiles : sp.user # pk \/ user.is_active}
    /\ last' = Response(op, status, pk, NoErrors, data, 0)
    /\ UNCHANGED schools
    /\ UNCHANGED elsewhere

SaveUser(op, status, pk, data, user) ==
    /\ users' = [users EXCEPT ![pk] = user]
    /\ last' = Response(op, status, pk, NoErrors, data, 0)
    /\ UNCHANGED <<schools, teacher_profiles, student_profiles>>
    /\ UNCHANGED elsewhere

\* queryset = User.objects.all()
AllUsersQueryset(u) == UserIds

\* a teachers list that is not filtered by school
TeachersOfAnySchool(u) == {i \in UserIds : users[i].role = "TEACHER"}

\* SchoolTeachersListView.get_queryset
SchoolTeachersQueryset(u) ==
    {i \in UserIds : users[i].school = u.school /\ users[i].role = "TEACHER"}

\* SchoolStudentsListView.get_queryset; class_level is the query parameter,
\* "" when the request has none
SchoolStudentsQueryset(u, class_level) ==
    LET queryset == {i \in UserIds : /\ users[i].school = u.school
                                     /\ users[i].role = "STUDENT"}
    IN  IF class_level # ""
        THEN {i \in queryset : \E sp \in student_profiles :
                                  sp.user = i /\ sp.class_level = class_level}
        ELSE queryset

\* SchoolUserDetailView.get_queryset: users of the requester's school
\* (school = None selects the rows whose school is NULL)
SchoolUsersQueryset(u) == {i \in UserIds : users[i].school = u.school}

\* get_object: the row pk of the queryset or 404, then the object
\* permissions or 403; the row is handed on when both pass
GetObjectStatus(pk, queryset, object_permitted) ==
    IF pk \notin queryset THEN 404
    ELSE IF ~object_permitted THEN 403
    ELSE 200

UserUpdate(r, pk, p) ==
    /\ IsSuperAdmin(RequestUser(r))
    /\ LET found == GetObjectStatus(pk, AllUsersQueryset(RequestUser(r)), TRUE)
       IN  IF found # 200 THEN Reject("UserUpdate", found, pk, NoErrors)
           ELSE SaveUser("UserUpdate", 200, pk, p, UserUpdated(users[pk], p))

UserDestroy(r, pk) ==
    /\ IsSuperAdmin(RequestUser(r))
    /\ LET found == GetObjectStatus(pk, AllUsersQueryset(RequestUser(r)), TRUE)
       IN  IF found # 200 THEN Reject("UserDestroy", found, pk, NoErrors)
           ELSE SaveUser("UserDestroy", 200, pk, [instance |-> users[pk]],
                         UserDeactivated(users[pk]))

\* permission_classes = [IsSchoolAdmin, IsSameSchool]
SchoolUserFound(u, pk) ==
    GetObjectStatus(pk, SchoolUsersQueryset(u),
                    pk \in UserIds /\ IsSameSchool(u, users[pk]))

SchoolUserUpdate(r, pk, p) ==
    /\ IsSchoolAdmin(RequestUser(r))
    /\ LET found == SchoolUserFound(RequestUser(r), pk)
       IN  IF found # 200 THEN Reject("SchoolUserUpdate", found, pk, NoErrors)
           ELSE SaveUser("SchoolUserUpdate", 200, pk, p,
                         UserUpdated(users[pk], p))

SchoolUserDestroy(r, pk) ==
    /\ IsSchoolAdmin(RequestUser(r))
    /\ LET found == SchoolUserFound(RequestUser(r), pk)
       IN  IF found # 200 THEN Reject("SchoolUserDestroy", found, pk, NoErrors)
           ELSE SaveUser("SchoolUserDestroy", 200, pk, [instance |-> users[pk]],
                         UserDeactivated(users[pk]))

(* ---------------------- schools/views.py ------------------------------- *)
\* an exact comparison of the names
ExactMatch(a, b) == a = b

\* name__iexact
IExact(a, b) == Lower(a) = Lower(b)

\* SchoolCreateSerializer: validate_name and the UniqueValidator of name
SchoolCreateErrors(name) ==
    ErrorIf(\E i \in SchoolPks : IExact(schools[i].name, name),
            "name: A school with this name already exists.")

\* SchoolUpdateSerializer: the UniqueValidator of name leaves out the
\* instance that is being updated
SchoolUpdateErrors(pk, p) ==
    ErrorIf("name" \in p.keys
                /\ \E i \in SchoolPks \ {pk} : schools[i].name = p.name,
            "name: school with this name already exists.")

SchoolUpdated(school, p) ==
    [school EXCEPT !.name = Get(p, "name", @),
                   !.is_active = Get(p, "is_active", @)]

\* destroy: school.is_active = False; school.save()
SchoolDeactivated(school) == [school EXCEPT !.is_active = FALSE]

\* the unique constraints of the schools table on name and slug (every
\* request of the pool carries a registration number of its own, so that
\* third unique column never collides)
SchoolInsertFails(row) ==
    \E i \in SchoolPks : schools[i].name = row.name \/ schools[i].slug = row.slug

\* a save that deactivates the users of a school it deactivates
SaveSchoolCascading(op, status, pk, data, row) ==
    /\ schools' = [schools EXCEPT ![pk] = SchoolSave(row)]
    /\ users' = [i \in DOMAIN users |->
                    IF users[i].school = pk /\ ~row.is_active
                    THEN [users[i] EXCEPT !.is_active = FALSE]
                    ELSE users[i]]
    /\ last' = Response(op, status, pk, NoErrors, data, 0)
    /\ UNCHANGED <<teacher_profiles, student_profiles>>
    /\ UNCHANGED elsewhere

SaveSchool(op, status, pk, data, row) ==
    /\ schools' = [schools EXCEPT ![pk] = SchoolSave(row)]
    /\ last' = Response(op, status, pk, NoErrors, data, 0)
    /\ UNCHANGED <<users, teacher_profiles, student_profiles>>
    /\ UNCHANGED elsewhere

SchoolCreate(r, name) ==
    /\ IsSuperAdmin(RequestUser(r))
    /\ LET p == [keys |-> {"name"}, name |-> name, is_active |-> TRUE]
           row == SchoolSave(SchoolRow(Len(schools) + 1, name))
       IN  IF SchoolCreateErrors(name) # NoErrors
           THEN /\ last' = Response("SchoolCreate", 400, 0,
                                    SchoolCreateErrors(name), p, 0)
                /\ UNCHANGED db
                /\ UNCHANGED elsewhere
           ELSE IF SchoolInsertFails(row)
           THEN Reject("SchoolCreate", 500, 0, NoErrors)
           ELSE /\ schools' = Append(schools, row)
                /\ last' = Response("SchoolCreate", 201, row.id, NoErrors, p, 0)
                /\ UNCHANGED <<users, teacher_profiles, student_profiles>>
                /\ UNCHANGED elsewhere

\* a get_permissions that does not look at the method
SchoolDetailPermissionAnyMethod(method, u) == IsSuperAdminOrSchoolAdmin(u)

\* SchoolDetailView.get_permissions: PUT, PATCH and DELETE take IsSuperAdmin,
\* the other methods IsSuperAdminOrSchoolAdmin
SchoolDetailPermission(method, u) ==
    IF method \in {"PUT", "PATCH", "DELETE"} THEN IsSuperAdmin(u)
    ELSE IsSuperAdminOrSchoolAdmin(u)

\* RetrieveAPIView.retrieve: get_object on School.objects.all(), then the
\* serialized row
SchoolRetrieve(r, pk) ==
    /\ SchoolDetailPermission("GET", RequestUser(r))
    /\ LET found == GetObjectStatus(pk, SchoolPks, TRUE)
       IN  IF found # 200 THEN Reject("SchoolRetrieve", found, pk, NoErrors)
           ELSE /\ last' = Response("SchoolRetrieve", 200, pk, NoErrors,
                                    [name |-> schools[pk].name,
                                     slug |-> schools[pk].slug], 0)
                /\ UNCHANGED db
                /\ UNCHANGED elsewhere

SchoolUpdate(r, pk, p) ==
    /\ SchoolDetailPermission("PUT", RequestUser(r))
    /\ LET found == GetObjectStatus(pk, SchoolPks, TRUE)
       IN  IF found # 200 THEN Reject("SchoolUpdate", found, pk, NoErrors)
           ELSE IF SchoolUpdateErrors(pk, p) # NoErrors
           THEN Reject("SchoolUpdate", 400, pk, SchoolUpdateErrors(pk, p))
           ELSE SaveSchool("SchoolUpdate", 200, pk, p,
                           SchoolUpdated(schools[pk], p))

SchoolDestroy(r, pk) ==
    /\ SchoolDetailPermission("DELETE", RequestUser(r))
    /\ LET found == GetObjectStatus(pk, SchoolPks, TRUE)
       IN  IF found # 200 THEN Reject("SchoolDestroy", found, pk, NoErrors)
           ELSE SaveSchool("SchoolDestroy", 200, pk, [instance |-> schools[pk]],
                           SchoolDeactivated(schools[pk]))

(* ------------- a request the permission class turns down ---------------- *)
\* APIView.initial runs check_permissions before the handler reads the body:
\* the view's has_permission decides on the requester alone
SuperAdminViews ==
    {"SchoolAdminCreate", "UserUpdate", "UserDestroy", "SchoolCreate",
     "SchoolUpdate", "SchoolDestroy"}
SchoolAdminViews ==
    {"TeacherCreate", "StudentCreate", "BulkStudentCreate", "SchoolUserUpdate",
     "SchoolUserDestroy"}

\* permission_classes = [permissions.IsAuthenticated]
AuthenticatedViews == {"Logout", "StudentProfileUpdate", "ChangePassword"}

\* the HTTP method of each operation of SchoolDetailView
SchoolDetailMethod(op) ==
    CASE op = "SchoolRetrieve" -> "GET"
      [] op = "SchoolUpdate" -> "PUT"
      [] op = "SchoolDestroy" -> "DELETE"

HasPermission(op, u) ==
    IF op \in {"SchoolRetrieve", "SchoolUpdate", "SchoolDestroy"}
    THEN SchoolDetailPermission(SchoolDetailMethod(op), u)
    ELSE IF op \in AuthenticatedViews THEN is_authenticated(u)
    ELSE IF op \in SuperAdminViews THEN IsSuperAdmin(u)
    ELSE IsSchoolAdmin(u)

PermissionDenied(r, op) ==
    /\ ~HasPermission(op, RequestUser(r))
    /\ Reject(op, Denied(RequestUser(r)), 0, NoErrors)

(* ------------------------- request inputs ------------------------------ *)
\* the primary keys a URL may name: every row of the table and one past it
UserPks == 1..(Len(users) + 1)
SchoolUrlPks == 1..(Len(schools) + 1)

PayloadRoles == {"SUPER_ADMIN", "STUDENT"}

RegistrationPayloads ==
    [email : Emails, first_name : {"n1"}, role : PayloadRoles,
     school : {None} \cup SchoolPks,
     password : {"pwA"}, password_confirm : {"pwA"}]
    \cup
    {[email |-> <<"b", "x.com">>, first_name |-> "n1", role |-> "STUDENT",
      school |-> 1, password |-> "pwA", password_confirm |-> "pwB"]}

\* the views asked for by requesters their permission class turns down
DeniedViews == {"SchoolDestroy", "BulkStudentCreate"}

UserUpdatePayloads ==
    {[keys |-> {"first_name", "is_active"}, first_name |-> "n1", is_active |-> TRUE],
     [keys |-> {"is_active"}, first_name |-> "n1", is_active |-> FALSE]}

SchoolUpdatePayloads ==
    {[keys |-> {"is_active"}, name |-> "kla", is_active |-> TRUE],
     [keys |-> {"is_active"}, name |-> "kla", is_active |-> FALSE]}

Entry(keys, email, class_level, student_id, password) ==
    [keys |-> keys, email |-> email, first_name |-> "n1", last_name |-> "l1",
     class_level |-> class_level, student_id |-> student_id,
     password |-> password, phone_number |-> "0700",
     parent_email |-> "p@x.com", parent_phone |-> "0701"]

Required == Range(RequiredFields)

BulkEntries ==
    {Entry(Required, <<"a", "x.com">>, "S2", "", ""),
     Entry(Required, <<"a", "X.com">>, "S2", "", ""),
     Entry(Required \cup {"student_id", "password", "phone_number",
                          "parent_email", "parent_phone"},
           <<"b", "x.com">>, "S6", "ADM1", "pwA"),
     Entry(Required \ {"class_level"}, <<"b", "x.com">>, "", "", "")}

RECURSIVE SeqsUpTo(_, _)
SeqsUpTo(S, n) ==
    IF n = 0 THEN {<<>>}
    ELSE LET shorter == SeqsUpTo(S, n - 1)
         IN  shorter \cup {Append(q, x) : q \in shorter, x \in S}

Batches == SeqsUpTo(BulkEntries, MaxBatch)

(* -------------------------- specification ------------------------------ *)
\* the database after migration and createsuperuser: no school, one Super
\* Admin without a school
Init ==
    /\ schools = <<>>
    /\ users = <<UserRow(1, SuperEmail, "n1", "SUPER_ADMIN", None, "pwA")>>
    /\ teacher_profiles = {}
    /\ student_profiles = {}
    /\ last = Response("Init", 0, 0, NoErrors, NoPayload, 0)
    /\ ElsewhereInit

Next ==
    \/ \E r \in Requesters, p \in RegistrationPayloads : SchoolAdminCreate(r, p)
    \/ \E r \in Requesters, p \in RegistrationPayloads : TeacherCreate(r, p)
    \/ \E r \in Requesters, p \in RegistrationPayloads : StudentCreate(r, p)
    \/ \E r \in Requesters, batch \in Batches : BulkStudentCreate(r, batch)
    \/ \E r \in Requesters, pk \in UserPks, p \in UserUpdatePayloads :
           UserUpdate(r, pk, p)
    \/ \E r \in Requesters, pk \in UserPks : UserDestroy(r, pk)
    \/ \E r \in Requesters, pk \in UserPks, p \in UserUpdatePayloads :
           SchoolUserUpdate(r, pk, p)
    \/ \E r \in Requesters, pk \in UserPks : SchoolUserDestroy(r, pk)
    \/ \E r \in Requesters, name \in SchoolNames : SchoolCreate(r, name)
    \/ \E r \in Requesters, pk \in SchoolUrlPks, p \in SchoolUpdatePayloads :
           SchoolUpdate(r, pk, p)
    \/ \E r \in Requesters, pk \in SchoolUrlPks : SchoolDestroy(r, pk)
    \/ \E r \in Requesters, op \in DeniedViews : PermissionDenied(r, op)

Spec == Init /\ [][Next]_vars

(* ------------- the requests of one school's administrator -------------- *)
\* the state Spec reaches when the Super Admin has created the school kla
\* and then its School Admin a@x.com
TenantAdminPayload ==
    [email |-> <<"a", "x.com">>, first_name |-> "n1", role |-> "STUDENT",
     school |-> 1, password |-> "pwA", password_confirm |-> "pwA"]

TenantInit ==
    /\ schools = <<SchoolSave(SchoolRow(1, "kla"))>>
    /\ users = <<UserRow(1, SuperEmail, "n1", "SUPER_ADMIN", None, "pwA"),
                 UserRow(2, <<"a", "x.com">>, "n1", "SCHOOL_ADMIN", 1, "pwA")>>
    /\ teacher_profiles = {}
    /\ student_profiles = {}
    /\ last = Response("SchoolAdminCreate", 201, 0, NoErrors,
                       TenantAdminPayload, 0)
    /\ ElsewhereInit

TenantRegistrationPayloads ==
    [email : {<<"b", "x.com">>, <<"c", "x.com">>}, first_name : {"n1"},
     role : PayloadRoles, school : {None, 1},
     password : {"pwA"}, password_confirm : {"pwA"}]

TenantEntries ==
    {Entry(Required, <<"b", "x.com">>, "S2", "", ""),
     Entry(Required, <<"b", "X.com">>, "S2", "", ""),
     Entry(Required \cup {"student_id", "password", "phone_number",
                          "parent_email", "parent_phone"},
           <<"c", "x.com">>, "S6", "ADM1", "pwA"),
     Entry(Required \cup {"student_id"}, <<"b", "x.com">>, "S3", "ADM1", ""),
     Entry(Required, <<"a", "x.com">>, "S2", "", ""),
     Entry(Required, <<"c", "x.com">>, "S7", "", ""),
     Entry(Required \ {"class_level"}, <<"c", "x.com">>, "", "", ""),
     Entry(Required \ {"first_name", "last_name"}, <<"c", "x.com">>, "S1", "", "")}

TenantBatches == SeqsUpTo(TenantEntries, MaxBatch)

TenantNext ==
    \/ \E r \in Requesters, p \in TenantRegistrationPayloads : TeacherCreate(r, p)
    \/ \E r \in Requesters, p \in TenantRegistrationPayloads : StudentCreate(r, p)
    \/ \E r \in Requesters, batch \in TenantBatches : BulkStudentCreate(r, batch)
    \/ \E r \in Requesters, pk \in UserPks : SchoolUserDestroy(r, pk)
    \/ \E r \in Requesters, op \in DeniedViews : PermissionDenied(r, op)

TenantSpec == TenantInit /\ [][TenantNext]_vars

(* ============================ the claims =============================== *)
RegistrationViews == {"SchoolAdminCreate", "TeacherCreate", "StudentCreate"}

HasProfile(pk) ==
    \/ \E tp \in teacher_profiles : tp.user = pk
    \/ \E sp \in student_profiles : sp.user = pk

\* C1: every user whose role is not SUPER_ADMIN references a school
C1_NonSuperAdminHasSchool ==
    \A i \in UserIds : users[i].role # "SUPER_ADMIN" => users[i].school # None

\* the payloads the registration serializer is to turn down: SUPER_ADMIN with
\* a school, any other role without one
RoleSchoolMismatch(p) ==
    \/ p.role = "SUPER_ADMIN" /\ p.school # None
    \/ p.role # "SUPER_ADMIN" /\ p.school = None

\* the step of the registration view named op on payload p sent by r
RegistrationStep(op, r, p) ==
    CASE op = "SchoolAdminCreate" -> SchoolAdminCreate(r, p)
      [] op = "TeacherCreate" -> TeacherCreate(r, p)
      [] op = "StudentCreate" -> StudentCreate(r, p)

\* C2: a registration request whose payload names SUPER_ADMIN with a school,
\* or another role without a school, is answered 400 and writes no row,
\* whichever of the three registration views receives it
C2_RegistrationRejectsRoleSchoolMismatch ==
    [][last'.op \in RegistrationViews =>
          \/ last'.status = 400 /\ UNCHANGED db
          \/ \A r \in Requesters, p \in RegistrationPayloads :
                 RegistrationStep(last'.op, r, p) => ~RoleSchoolMismatch(p)]_vars

\* a School Admin's teacher registration naming SUPER_ADMIN with a school was
\* turned down by validate
C2_Witness ==
    /\ last.op = "TeacherCreate"
    /\ last.status = 400
    /\ last.errors = {"school: Super Admin cannot be assigned to a school."}

\* C3: every SUPER_ADMIN user has no school
C3_SuperAdminHasNoSchool ==
    \A i \in UserIds : users[i].role = "SUPER_ADMIN" => users[i].school = None

\* a view that forces the requester's school created a row from a payload
\* that named the role SUPER_ADMIN
C3_Witness ==
    /\ last.op \in {"TeacherCreate", "StudentCreate"}
    /\ last.status = 201
    /\ last.data.role = "SUPER_ADMIN"
    /\ users[Len(users)].school # None

\* the effect of a soft delete of user pk: answered 200, the flag of that
\* row cleared, every other field of every row as it was
UserSoftDeleted(pk) ==
    /\ last'.status = 200
    /\ users' = [users EXCEPT ![pk].is_active = FALSE]
    /\ UNCHANGED <<schools, teacher_profiles, student_profiles>>

\* C4: a DELETE of an existing user by a Super Admin through UserDetailView,
\* or of a user of the requester's school by a School Admin through
\* SchoolUserDetailView, clears is_active, answers 200 and changes nothing
\* else: no row of users or of the profile tables is added, removed or altered
C4_UserDeleteIsSoft ==
    [][last'.op \in {"UserDestroy", "SchoolUserDestroy"} =>
          \A r \in Requesters, pk \in UserIds :
             /\ UserDestroy(r, pk) => UserSoftDeleted(pk)
             /\ (SchoolUserDestroy(r, pk) /\ users[pk].school = users[r].school)
                   => UserSoftDeleted(pk)]_vars

\* a School Admin deactivated a user that owns a profile
C4_Witness ==
    /\ last.op = "SchoolUserDestroy"
    /\ last.status = 200
    /\ ~users[last.pk].is_active
    /\ HasProfile(last.pk)

\* C5: a DELETE of an existing school through SchoolDetailView clears the
\* school's is_active and answers 200; the row stays and no user row changes
C5_SchoolDeleteIsSoft ==
    [][last'.op = "SchoolDestroy" =>
          \A r \in Requesters, pk \in SchoolPks :
             SchoolDestroy(r, pk)
             => /\ last'.status = 200
                /\ schools' = [schools EXCEPT ![pk].is_active = FALSE]
                /\ UNCHANGED <<users, teacher_profiles, student_profiles>>]_vars

\* a school that has an active user was deactivated
C5_Witness ==
    /\ last.op = "SchoolDestroy"
    /\ last.status = 200
    /\ ~schools[last.pk].is_active
    /\ \E i \in UserIds : users[i].school = last.pk /\ users[i].is_active

\* an entry C6 names: a required field is missing, the email is the email of
\* a row of the users table, or the class level is none of S1..S6
RejectedEntry(e) ==
    \/ ~(Required \subseteq e.keys)
    \/ EmailExists(users, e.email)
    \/ e.class_level \notin CLASS_LEVEL_CHOICES

\* C6: a bulk creation whose batch holds an entry that lacks a required
\* field, carries the email of an existing user (the same string), or has a
\* class level outside S1..S6 is answered 400 and leaves every table as it was
C6_BulkRejectsWholeBatch ==
    [][last'.op = "BulkStudentCreate" =>
          \/ last'.status = 400 /\ UNCHANGED db
          \/ \A r \in Requesters, batch \in TenantBatches :
                 BulkStudentCreate(r, batch)
                 => \A k \in 1..Len(batch) : ~RejectedEntry(batch[k])]_vars

\* a batch was turned down for the existing email of its second entry while
\* students created earlier are in the tables
C6_Witness ==
    /\ last.op = "BulkStudentCreate"
    /\ last.status = 400
    /\ last.errors = {<<2, "Email already exists">>}
    /\ student_profiles # {}

\* entry j of the batch is in the tables after the step: a STUDENT row the
\* step added under the normalised email, with the profile of that entry
EntryCreated(batch, j) ==
    \E i \in (Len(users) + 1)..Len(users') :
       /\ users'[i].email = NormalizeEmail(batch[j].email)
       /\ users'[i].role = "STUDENT"
       /\ \E sp \in student_profiles' \ student_profiles :
              sp.user = i /\ sp.class_level = batch[j].class_level

\* C7: when the creation loop of a bulk request raises at entry k, the batch
\* had passed validate_students, the users and profiles of entries 1..k-1
\* are in the tables after the request, and nothing else was added but, when
\* it was the profile insert that raised, the user of entry k without profile
C7_BulkKeepsPartialRows ==
    [][(last'.op = "BulkStudentCreate" /\ last'.status = 500) =>
          LET batch == last'.data
              k == last'.failed_at
              added == Len(users') - Len(users)
          IN  /\ BulkErrors(batch) = NoErrors
              /\ k \in 1..Len(batch)
              /\ \A j \in 1..(k - 1) : EntryCreated(batch, j)
              /\ added \in {k - 1, k}
              /\ Cardinality(student_profiles' \ student_profiles) = k - 1
              /\ student_profiles \subseteq student_profiles'
              /\ SubSeq(users', 1, Len(users)) = users]_vars

\* the loop raised at the second entry on the profile insert: the first
\* student stays with its profile, the second user stays without one
C7_Witness ==
    /\ last.op = "BulkStudentCreate"
    /\ last.status = 500
    /\ last.failed_at = 2
    /\ Len(users) >= 2
    /\ users[Len(users)].role = "STUDENT"
    /\ ~HasProfile(Len(users))
    /\ HasProfile(Len(users) - 1)

\* C8: IsSameSchool grants a SUPER_ADMIN every object; it grants a
\* SCHOOL_ADMIN an object exactly when the object has a school and it is the
\* requester's; it grants a TEACHER or a STUDENT no object
C8_IsSameSchool ==
    \A i \in UserIds :
       LET u == users[i]
           Granted(obj) ==
               CASE u.role = "SUPER_ADMIN" -> IsSameSchool(u, obj)
                 [] u.role = "SCHOOL_ADMIN" ->
                        (IsSameSchool(u, obj)
                            <=> (obj.kind = "User" /\ obj.school = u.school))
                 [] OTHER -> ~IsSameSchool(u, obj)
       IN  /\ \A j \in UserIds : Granted(users[j])
           /\ \A j \in SchoolPks : Granted(schools[j])
           /\ \A tp \in teacher_profiles : Granted(tp)
           /\ \A sp \in student_profiles : Granted(sp)

\* a School Admin updated a user of its school through the view IsSameSchool
\* guards, while a user outside that school and a teacher of that school exist
C8_Witness ==
    /\ last.op = "SchoolUserUpdate"
    /\ last.status = 200
    /\ \E i \in UserIds :
          /\ users[i].role = "SCHOOL_ADMIN"
          /\ IsSameSchool(users[i], users[last.pk])
          /\ \E j \in UserIds : ~IsSameSchool(users[i], users[j])
          /\ \E j \in UserIds :
                /\ users[j].role = "TEACHER"
                /\ users[j].school = users[i].school
                /\ ~IsSameSchool(users[j], users[i])

\* C9: IsOwnerOrAdmin grants exactly when the requester is a SUPER_ADMIN or a
\* SCHOOL_ADMIN, or the object's user is the requester, or the object has no
\* user and is the requester
C9_IsOwnerOrAdmin ==
    \A i \in UserIds :
       LET u == users[i]
           admin == u.role \in {"SUPER_ADMIN", "SCHOOL_ADMIN"}
       IN  /\ \A j \in UserIds : IsOwnerOrAdmin(u, users[j]) <=> (admin \/ j = i)
           /\ \A j \in SchoolPks : IsOwnerOrAdmin(u, schools[j]) <=> admin
           /\ \A tp \in teacher_profiles :
                 IsOwnerOrAdmin(u, tp) <=> (admin \/ tp.user = i)
           /\ \A sp \in student_profiles :
                 IsOwnerOrAdmin(u, sp) <=> (admin \/ sp.user = i)

\* a teacher and a student each own a profile: each is granted its own and
\* denied the other's
C9_Witness ==
    \E tp \in teacher_profiles, sp \in student_profiles :
       /\ IsOwnerOrAdmin(users[tp.user], tp)
       /\ IsOwnerOrAdmin(users[sp.user], sp)
       /\ ~IsOwnerOrAdmin(users[tp.user], sp)
       /\ ~IsOwnerOrAdmin(users[sp.user], tp)
       /\ ~IsOwnerOrAdmin(users[sp.user], users[tp.user])

\* the role permission classes that grant requester u
Granting(u) ==
    {c \in {"IsSuperAdmin", "IsSchoolAdmin", "IsTeacher", "IsStudent"} :
        CASE c = "IsSuperAdmin" -> IsSuperAdmin(u)
          [] c = "IsSchoolAdmin" -> IsSchoolAdmin(u)
          [] c = "IsTeacher" -> IsTeacher(u)
          [] c = "IsStudent" -> IsStudent(u)}

\* C10: each of IsSuperAdmin, IsSchoolAdmin, IsTeacher, IsStudent grants
\* exactly the authenticated requesters of its role, so at most one of them
\* grants; IsSuperAdminOrSchoolAdmin grants exactly when one of the first two
\* does; all five deny a request without credentials
C10_RolePermissions ==
    \A r \in Requesters :
       LET u == RequestUser(r)
           HasRole(role) == r # Anonymous /\ users[r].role = role
       IN  /\ IsSuperAdmin(u) <=> HasRole("SUPER_ADMIN")
           /\ IsSchoolAdmin(u) <=> HasRole("SCHOOL_ADMIN")
           /\ IsTeacher(u) <=> HasRole("TEACHER")
           /\ IsStudent(u) <=> HasRole("STUDENT")
           /\ Cardinality(Granting(u)) <= 1
           /\ IsSuperAdminOrSchoolAdmin(u) <=> (IsSuperAdmin(u) \/ IsSchoolAdmin(u))
           /\ r = Anonymous => Granting(u) = {} /\ ~IsSuperAdminOrSchoolAdmin(u)

\* requesters of all four roles can sign in and IsSchoolAdmin has just
\* turned a signed-in requester away
C10_Witness ==
    /\ last.op = "BulkStudentCreate"
    /\ last.status = 403
    /\ \A role \in Roles : \E r \in Requesters \ {Anonymous} : users[r].role = role

(* ======================= content/models.py ============================ *)
ClassCodes == {"S1", "S2"}
ClassOrders == {1, 2}
TopicTitles == {"The Cell", "Photosynthesis"}

CurriculumClassRow(id, code, order) ==
    [kind |-> "CurriculumClass", id |-> id, code |-> code, order |-> order]

TopicRow(id, curriculum_class, title) ==
    [kind |-> "Topic", id |-> id, curriculum_class |-> curriculum_class,
     title |-> title]

CurriculumClassPks == 1..Len(curriculum_classes)
TopicPks == 1..Len(topics)

\* what the content operations never touch
outside_content == <<db, tokens, pending>>

\* CurriculumClass: unique=True on code and on order
CurriculumClassUniqueFails(code, order) ==
    \E i \in CurriculumClassPks :
       curriculum_classes[i].code = code \/ curriculum_classes[i].order = order

\* a topics table without the unique_together constraint
TopicNeverFails(pk, curriculum_class, title) == FALSE

\* Topic.Meta.unique_together = ['curriculum_class', 'title']: a row other
\* than row pk holds the pair (pk = 0 for an insert)
TopicUniqueTogetherFails(pk, curriculum_class, title) ==
    \E i \in TopicPks \ {pk} :
       /\ topics[i].curriculum_class = curriculum_class
       /\ topics[i].title = title

\* a write the database refuses: IntegrityError, no row written
ContentRefused(op, pk, error) ==
    /\ last' = Response(op, 0, pk, {error}, NoPayload, 0)
    /\ UNCHANGED content
    /\ UNCHANGED outside_content

\* CurriculumClass.objects.create(code=..., order=...)
CurriculumClassCreate(code, order) ==
    IF CurriculumClassUniqueFails(code, order)
    THEN ContentRefused("CurriculumClassCreate", 0,
                        "curriculum_classes: UNIQUE constraint failed")
    ELSE /\ curriculum_classes' =
                Append(curriculum_classes,
                       CurriculumClassRow(Len(curriculum_classes) + 1, code, order))
         /\ last' = Response("CurriculumClassCreate", 0,
                             Len(curriculum_classes) + 1, NoErrors, NoPayload, 0)
         /\ UNCHANGED topics
         /\ UNCHANGED outside_content

\* Topic.objects.create(curriculum_class_id=..., title=...)
TopicCreate(curriculum_class, title) ==
    IF curriculum_class \notin CurriculumClassPks
    THEN ContentRefused("TopicCreate", 0, "topics: FOREIGN KEY constraint failed")
    ELSE IF TopicUniqueTogetherFails(0, curriculum_class, title)
    THEN ContentRefused("TopicCreate", 0, "topics: UNIQUE constraint failed")
    ELSE /\ topics' = Append(topics,
                             TopicRow(Len(topics) + 1, curriculum_class, title))
         /\ last' = Response("TopicCreate", 0, Len(topics) + 1, NoErrors,
                             [curriculum_class |-> curriculum_class,
                              title |-> title], 0)
         /\ UNCHANGED curriculum_classes
         /\ UNCHANGED outside_content

\* topic.title = ...; topic.save() on an existing row
TopicSave(pk, title) ==
    /\ pk \in TopicPks
    /\ IF TopicUniqueTogetherFails(pk, topics[pk].curriculum_class, title)
       THEN ContentRefused("TopicSave", pk, "topics: UNIQUE constraint failed")
       ELSE /\ topics' = [topics EXCEPT ![pk].title = title]
            /\ last' = Response("TopicSave", 0, pk, NoErrors, NoPayload, 0)
            /\ UNCHANGED curriculum_classes
            /\ UNCHANGED outside_content

\* the primary keys a topic may name for its class: every row and one past
CurriculumClassRefs == 1..(Len(curriculum_classes) + 1)

ContentNext ==
    \/ \E code \in ClassCodes, order \in ClassOrders :
           CurriculumClassCreate(code, order)
    \/ \E cc \in CurriculumClassRefs, title \in TopicTitles : TopicCreate(cc, title)
    \/ \E pk \in TopicPks, title \in TopicTitles : TopicSave(pk, title)

ContentSpec == Init /\ [][ContentNext]_vars

(* ------------------------------ C11 ----------------------------------- *)
\* C11: a Topic creation whose class and title are those of an existing
\* Topic is refused and adds no row, one whose title exists under another
\* class only is accepted and adds the row; so no two Topics ever share both
\* class and title
C11_TopicUniquePerClass ==
    [][/\ \A cc \in CurriculumClassPks, title \in TopicTitles :
             TopicCreate(cc, title) =>
                IF \E i \in TopicPks : /\ topics[i].curriculum_class = cc
                                       /\ topics[i].title = title
                THEN last'.errors # NoErrors /\ UNCHANGED topics
                ELSE /\ last'.errors = NoErrors
                     /\ topics' = Append(topics, TopicRow(Len(topics) + 1, cc, title))
       /\ \A i, j \in 1..Len(topics') :
             (/\ topics'[i].curriculum_class = topics'[j].curriculum_class
              /\ topics'[i].title = topics'[j].title) => i = j]_vars

\* the same title was just accepted under a second class
C11_Witness ==
    /\ last.op = "TopicCreate"
    /\ last.errors = NoErrors
    /\ \E i \in TopicPks :
          /\ i # last.pk
          /\ topics[i].title = topics[last.pk].title
          /\ topics[i].curriculum_class # topics[last.pk].curriculum_class

(* ================== the requests about schools ======================== *)
\* the state Spec reaches when the Super Admin has created the schools kla
\* and gulu and then the School Admin a@x.com of kla
SchoolsInit ==
    /\ schools = <<SchoolSave(SchoolRow(1, "kla")), SchoolSave(SchoolRow(2, "gulu"))>>
    /\ users = <<UserRow(1, SuperEmail, "n1", "SUPER_ADMIN", None, "pwA"),
                 UserRow(2, <<"a", "x.com">>, "n1", "SCHOOL_ADMIN", 1, "pwA")>>
    /\ teacher_profiles = {}
    /\ student_profiles = {}
    /\ last = Response("SchoolAdminCreate", 201, 0, NoErrors,
                       TenantAdminPayload, 0)
    /\ ElsewhereInit

SchoolsNames == {"kla", "gulu", "KLA", "jinja"}

SchoolsUpdatePayloads ==
    [keys : {{"name"}}, name : SchoolsNames, is_active : {TRUE}]
    \cup [keys : {{"is_active"}}, name : {"kla"}, is_active : {TRUE, FALSE}]

SchoolsTeacherPayloads ==
    {[email |-> <<"b", "x.com">>, first_name |-> "n1", role |-> "STUDENT",
      school |-> 2, password |-> "pwA", password_confirm |-> "pwA"]}

SchoolsDeniedViews ==
    {"SchoolCreate", "SchoolUpdate", "SchoolDestroy", "SchoolRetrieve",
     "TeacherCreate", "BulkStudentCreate"}

SchoolsNext ==
    \/ \E r \in Requesters, name \in SchoolsNames : SchoolCreate(r, name)
    \/ \E r \in Requesters, pk \in SchoolUrlPks : SchoolRetrieve(r, pk)
    \/ \E r \in Requesters, pk \in SchoolUrlPks, p \in SchoolsUpdatePayloads :
           SchoolUpdate(r, pk, p)
    \/ \E r \in Requesters, pk \in SchoolUrlPks : SchoolDestroy(r, pk)
    \/ \E r \in Requesters, p \in SchoolsTeacherPayloads : TeacherCreate(r, p)
    \/ \E r \in Requesters, op \in SchoolsDeniedViews : PermissionDenied(r, op)

SchoolsSpec == SchoolsInit /\ [][SchoolsNext]_vars

(* ------------------------------ C12 ----------------------------------- *)
\* C12: a save of a school sets the slug to slugify(name) exactly when the
\* row has no slug yet (its creation) and leaves a slug that is there as it
\* is, so an update that renames the school keeps the slug
C12_SlugSetOnceFromName ==
    [][(/\ last'.op \in {"SchoolCreate", "SchoolUpdate", "SchoolDestroy"}
        /\ last'.status \in {200, 201}) =>
          LET pk == last'.pk
          IN  schools'[pk].slug =
                 IF pk \in SchoolPks /\ schools[pk].slug # ""
                 THEN schools[pk].slug
                 ELSE slugify(schools'[pk].name)]_vars

\* an update renamed a school and its slug is still the one of the old name
C12_Witness ==
    /\ last.op = "SchoolUpdate"
    /\ last.status = 200
    /\ "name" \in last.data.keys
    /\ schools[last.pk].name = last.data.name
    /\ schools[last.pk].slug # slugify(schools[last.pk].name)

(* ------------------------------ C14 ----------------------------------- *)
\* a request of r to a view that takes IsSuperAdmin
SuperAdminOnlyStep(r) ==
    \/ \E name \in SchoolsNames : SchoolCreate(r, name)
    \/ \E pk \in SchoolUrlPks, p \in SchoolsUpdatePayloads : SchoolUpdate(r, pk, p)
    \/ \E pk \in SchoolUrlPks : SchoolDestroy(r, pk)
    \/ \E op \in SchoolsDeniedViews \cap SuperAdminViews : PermissionDenied(r, op)

\* a request of r to a view that takes IsSchoolAdmin
SchoolAdminOnlyStep(r) ==
    \/ \E p \in SchoolsTeacherPayloads : TeacherCreate(r, p)
    \/ \E op \in SchoolsDeniedViews \cap SchoolAdminViews : PermissionDenied(r, op)

\* C14: a signed-in requester who is no Super Admin is answered 403 by every
\* Super-Admin-only view, PUT, PATCH and DELETE of SchoolDetailView among
\* them, and one who is no School Admin by every School-Admin-only view,
\* whatever the body of the request, and no table changes
C14_PermissionBeforeValidation ==
    [][\/ last'.status = 403 /\ UNCHANGED db /\ UNCHANGED content
       \/ \A r \in Requesters \ {Anonymous} :
             /\ ~IsSuperAdmin(users[r]) => ~SuperAdminOnlyStep(r)
             /\ ~IsSchoolAdmin(users[r]) => ~SchoolAdminOnlyStep(r)]_vars

\* a DELETE of a school was answered 403 while a School Admin, a teacher and
\* the Super Admin can sign in
C14_Witness ==
    /\ last.op = "SchoolDestroy"
    /\ last.status = 403
    /\ \E r \in Requesters \ {Anonymous} : users[r].role = "SCHOOL_ADMIN"
    /\ \E r \in Requesters \ {Anonymous} : users[r].role = "TEACHER"

(* ------------------------------ C15 ----------------------------------- *)
\* C15: a GET of a school through SchoolDetailView by a School Admin is
\* answered 200 only when the school is the requester's
C15_SchoolAdminReadsOwnSchoolOnly ==
    [][last'.op = "SchoolRetrieve" =>
          \A r \in Requesters \ {Anonymous}, pk \in SchoolUrlPks :
             (/\ users[r].role = "SCHOOL_ADMIN"
              /\ SchoolRetrieve(r, pk)
              /\ last'.status = 200) => pk = users[r].school]_vars

(* =============== login and logout: the refresh tokens ================= *)
\* the token ids (jti) a login may draw, and a string that is no token
TokenIds == {"t1", "t2", "t3"}
Garbage == "garbage"

TokenRow(jti, user) == [jti |-> jti, user |-> user, expired |-> FALSE]

\* what the token operations never touch
outside_tokens == <<db, content, pending>>

\* authenticate(email, password): the active user of that email whose
\* password hash matches, 0 when there is none
Authenticate(email, password) ==
    LET found == {i \in UserIds : /\ users[i].email = email
                                  /\ users[i].password = MakePassword(password)
                                  /\ users[i].is_active}
    IN  IF found = {} THEN 0 ELSE CHOOSE i \in found : TRUE

\* CustomTokenObtainPairView: the credentials are checked, then a refresh
\* token with a fresh id is issued for the user and recorded as outstanding
Login(email, password, jti) ==
    /\ jti \notin {o.jti : o \in outstanding_tokens}
    /\ LET user == Authenticate(email, password)
       IN  IF user = 0
           THEN /\ last' = Response("Login", 401, 0,
                                    {"No active account found with the given credentials"},
                                    NoPayload, 0)
                /\ UNCHANGED tokens
           ELSE /\ outstanding_tokens' = outstanding_tokens \cup {TokenRow(jti, user)}
                /\ last' = Response("Login", 200, user, NoErrors,
                                    [refresh |-> jti], 0)
                /\ UNCHANGED blacklisted_tokens
    /\ UNCHANGED outside_tokens

\* the lifetime of an outstanding token ends
TokenExpires(jti) ==
    /\ \E o \in outstanding_tokens : o.jti = jti /\ ~o.expired
    /\ outstanding_tokens' =
           {IF o.jti = jti THEN [o EXCEPT !.expired = TRUE] ELSE o :
               o \in outstanding_tokens}
    /\ last' = Response("TokenExpires", 0, 0, NoErrors, NoPayload, 0)
    /\ UNCHANGED blacklisted_tokens
    /\ UNCHANGED outside_tokens

\* a token check that does not consult the blacklist
TokenErrorWithoutBlacklist(t) ==
    IF ~\E o \in outstanding_tokens : o.jti = t /\ ~o.expired
    THEN {"Token is invalid or expired"}
    ELSE NoErrors

\* RefreshToken(refresh_token): the string must be a token this server
\* signed, not expired and not blacklisted, else TokenError
TokenError(t) ==
    IF ~\E o \in outstanding_tokens : o.jti = t /\ ~o.expired
    THEN {"Token is invalid or expired"}
    ELSE IF t \in blacklisted_tokens
    THEN {"Token is blacklisted"}
    ELSE NoErrors

TokenReject(op, status, errors) ==
    /\ last' = Response(op, status, 0, errors, NoPayload, 0)
    /\ UNCHANGED tokens
    /\ UNCHANGED outside_tokens

\* logout_view
Logout(r, p) ==
    /\ is_authenticated(RequestUser(r))
    /\ LET refresh_token == Get(p, "refresh_token", "")
       IN  IF refresh_token = ""
           THEN TokenReject("Logout", 400, {"Refresh token is required"})
           ELSE IF TokenError(refresh_token) # NoErrors
           THEN TokenReject("Logout", 400, TokenError(refresh_token))
           ELSE /\ blacklisted_tokens' = blacklisted_tokens \cup {refresh_token}
                /\ last' = Response("Logout", 200, 0, NoErrors,
                                    [refresh_token |-> refresh_token], 0)
                /\ UNCHANGED outstanding_tokens
                /\ UNCHANGED outside_tokens

\* TokenRefreshView: a new access token for a refresh token that verifies
TokenRefresh(t) ==
    IF TokenError(t) # NoErrors
    THEN TokenReject("TokenRefresh", 401, TokenError(t))
    ELSE /\ last' = Response("TokenRefresh", 200, 0, NoErrors,
                             [refresh_token |-> t], 0)
         /\ UNCHANGED tokens
         /\ UNCHANGED outside_tokens

LoginEmails == {SuperEmail, <<"a", "x.com">>}
LoginPasswords == {"pwA", "pwB"}

LogoutPayloads ==
    [keys : {{"refresh_token"}}, refresh_token : TokenIds \cup {Garbage, ""}]
    \cup {[keys |-> {}, refresh_token |-> ""]}

TokensDeniedViews == {"Logout"}

TokensNext ==
    \/ \E email \in LoginEmails, password \in LoginPasswords, jti \in TokenIds :
           Login(email, password, jti)
    \/ \E jti \in TokenIds : TokenExpires(jti)
    \/ \E r \in Requesters, p \in LogoutPayloads : Logout(r, p)
    \/ \E t \in TokenIds \cup {Garbage} : TokenRefresh(t)
    \/ \E r \in Requesters, op \in TokensDeniedViews : PermissionDenied(r, op)

TokensSpec == TenantInit /\ [][TokensNext]_vars

(* ------------------------------ C13 ----------------------------------- *)
\* the request carries a refresh token this server issued that is neither
\* expired nor blacklisted
CarriesValidToken(p) ==
    /\ "refresh_token" \in p.keys
    /\ \E o \in outstanding_tokens : o.jti = p.refresh_token /\ ~o.expired
    /\ p.refresh_token \notin blacklisted_tokens

\* C13: a logout that carries a valid refresh token blacklists it and answers
\* 200; a logout without a token, or with one that cannot be parsed, is
\* expired or is blacklisted already, answers 400 and blacklists nothing; a
\* blacklisted token stays blacklisted in every later state
C13_LogoutBlacklistsToken ==
    [][/\ blacklisted_tokens \subseteq blacklisted_tokens'
       /\ last'.op = "Logout" =>
             \A r \in Requesters, p \in LogoutPayloads :
                Logout(r, p) =>
                   IF CarriesValidToken(p)
                   THEN /\ last'.status = 200
                        /\ blacklisted_tokens' =
                               blacklisted_tokens \cup {p.refresh_token}
                   ELSE /\ last'.status = 400
                        /\ UNCHANGED blacklisted_tokens]_vars

\* a logout with a token blacklisted by an earlier logout was answered 400
C13_Witness ==
    /\ last.op = "Logout"
    /\ last.status = 400
    /\ last.errors = {"Token is blacklisted"}
    /\ blacklisted_tokens # {}

(* ============ the rosters of a school and the profiles ================ *)
\* ListAPIView.list: the rows of the queryset
ListUsers(op, queryset) ==
    /\ last' = Response(op, 200, 0, NoErrors, [ids |-> queryset], 0)
    /\ UNCHANGED db
    /\ UNCHANGED elsewhere

SchoolTeachersList(r) ==
    /\ IsSchoolAdmin(RequestUser(r))
    /\ ListUsers("SchoolTeachersList", SchoolTeachersQueryset(RequestUser(r)))

SchoolStudentsList(r, class_level) ==
    /\ IsSchoolAdmin(RequestUser(r))
    /\ ListUsers("SchoolStudentsList",
                 SchoolStudentsQueryset(RequestUser(r), class_level))

\* StudentProfileUpdateSerializer: class_level is a choice of
\* CLASS_LEVEL_CHOICES, required unless the update is partial (PATCH)
StudentProfileUpdateErrors(method, p) ==
    IF "class_level" \notin p.keys
    THEN ErrorIf(method = "PUT", "class_level: This field is required.")
    ELSE ErrorIf(p.class_level \notin CLASS_LEVEL_CHOICES,
                 "class_level: not a valid choice.")

StudentProfileUpdated(profile, p) ==
    [profile EXCEPT !.class_level = Get(p, "class_level", @),
                    !.phone_number = Get(p, "phone_number", @),
                    !.parent_email = Get(p, "parent_email", @),
                    !.parent_phone = Get(p, "parent_phone", @)]

\* StudentProfileView (PUT, PATCH): get_object raises DoesNotExist for a
\* requester without student profile, which nothing catches
StudentProfileUpdate(r, method, p) ==
    /\ is_authenticated(RequestUser(r))
    /\ LET mine == {sp \in student_profiles : sp.user = r}
       IN  IF mine = {}
           THEN Reject("StudentProfileUpdate", 500, 0, NoErrors)
           ELSE IF StudentProfileUpdateErrors(method, p) # NoErrors
           THEN Reject("StudentProfileUpdate", 400, 0,
                       StudentProfileUpdateErrors(method, p))
           ELSE LET profile == CHOOSE sp \in mine : TRUE
                IN  /\ student_profiles' =
                           (student_profiles \ {profile})
                               \cup {StudentProfileUpdated(profile, p)}
                    /\ last' = Response("StudentProfileUpdate", 200, r,
                                        NoErrors, p, 0)
                    /\ UNCHANGED <<schools, users, teacher_profiles>>
                    /\ UNCHANGED elsewhere

\* the state Spec reaches when the Super Admin has created the schools kla
\* and gulu and a School Admin for each
RosterInit ==
    /\ schools = <<SchoolSave(SchoolRow(1, "kla")), SchoolSave(SchoolRow(2, "gulu"))>>
    /\ users = <<UserRow(1, SuperEmail, "n1", "SUPER_ADMIN", None, "pwA"),
                 UserRow(2, <<"a", "x.com">>, "n1", "SCHOOL_ADMIN", 1, "pwA"),
                 UserRow(3, <<"b", "x.com">>, "n1", "SCHOOL_ADMIN", 2, "pwA")>>
    /\ teacher_profiles = {}
    /\ student_profiles = {}
    /\ last = Response("SchoolAdminCreate", 201, 0, NoErrors,
                       [TenantAdminPayload EXCEPT !.email = <<"b", "x.com">>,
                                                  !.school = 2], 0)
    /\ ElsewhereInit

RosterPayloads ==
    [email : {<<"c", "x.com">>, <<"d", "x.com">>}, first_name : {"n1"},
     role : {"STUDENT"}, school : {1},
     password : {"pwA"}, password_confirm : {"pwA"}]

RosterEntries ==
    {Entry(Required, <<"c", "x.com">>, "S2", "", ""),
     Entry(Required \cup {"student_id"}, <<"c", "x.com">>, "S3", "ADM1", ""),
     Entry(Required \cup {"student_id"}, <<"d", "x.com">>, "S6", "ADM1", ""),
     Entry(Required, <<"d", "x.com">>, "S7", "", "")}

RosterBatches == SeqsUpTo(RosterEntries, MaxBatch)

ProfilePayloads ==
    {[keys |-> {"class_level"}, class_level |-> "S4", phone_number |-> ""],
     [keys |-> {"class_level"}, class_level |-> "S7", phone_number |-> ""],
     [keys |-> {"phone_number"}, class_level |-> "", phone_number |-> "0700"]}

ClassLevelParams == {"", "S1", "S4"}

RosterDeniedViews == {"SchoolStudentsList", "StudentProfileUpdate"}

RosterNext ==
    \/ \E r \in Requesters, p \in RosterPayloads : TeacherCreate(r, p)
    \/ \E r \in Requesters, p \in RosterPayloads : StudentCreate(r, p)
    \/ \E r \in Requesters, batch \in RosterBatches : BulkStudentCreate(r, batch)
    \/ \E r \in Requesters, method \in {"PUT", "PATCH"}, p \in ProfilePayloads :
           StudentProfileUpdate(r, method, p)
    \/ \E r \in Requesters : SchoolTeachersList(r)
    \/ \E r \in Requesters, class_level \in ClassLevelParams :
           SchoolStudentsList(r, class_level)
    \/ \E r \in Requesters, op \in RosterDeniedViews : PermissionDenied(r, op)

RosterSpec == RosterInit /\ [][RosterNext]_vars

(* ------------------------------ C16 ----------------------------------- *)
\* user i has a student profile of class level class_level
InClassLevel(i, class_level) ==
    \E sp \in student_profiles : sp.user = i /\ sp.class_level = class_level

\* C16: the teachers list answers exactly the users of role TEACHER whose
\* school is the requester's, the students list exactly the users of role
\* STUDENT whose school is the requester's and, when the class_level filter
\* is given, whose profile has that class level
C16_ListsAreTenantScoped ==
    [][/\ last'.op = "SchoolTeachersList" =>
             \A r \in Requesters :
                SchoolTeachersList(r) =>
                   \A i \in UserIds :
                      i \in last'.data.ids
                         <=> (/\ users[i].role = "TEACHER"
                              /\ users[i].school = users[r].school)
       /\ last'.op = "SchoolStudentsList" =>
             \A r \in Requesters, class_level \in ClassLevelParams :
                SchoolStudentsList(r, class_level) =>
                   \A i \in UserIds :
                      i \in last'.data.ids
                         <=> (/\ users[i].role = "STUDENT"
                              /\ users[i].school = users[r].school
                              /\ class_level # "" => InClassLevel(i, class_level))]_vars

\* a teachers list was answered with a teacher while the other school has a
\* teacher too, who is not in the answer
C16_Witness ==
    /\ last.op = "SchoolTeachersList"
    /\ last.status = 200
    /\ last.data.ids # {}
    /\ \E i \in UserIds \ last.data.ids : users[i].role = "TEACHER"

(* ------------------------------ C18 ----------------------------------- *)
\* C18: no two student profiles have the same student_id, or the same user,
\* and the class level of every student profile is one of S1..S6
C18_StudentIdUniqueClassLevelValid ==
    /\ \A sp1, sp2 \in student_profiles :
          (sp1.student_id = sp2.student_id \/ sp1.user = sp2.user) => sp1 = sp2
    /\ \A sp \in student_profiles : sp.class_level \in CLASS_LEVEL_CHOICES

\* a student registered singly and one created in bulk with a student_id of
\* its own both have a profile, and one of them has just changed its class
\* level
C18_Witness ==
    /\ last.op = "StudentProfileUpdate"
    /\ last.status = 200
    /\ "class_level" \in last.data.keys
    /\ \E sp \in student_profiles : sp.student_id = "ADM1"
    /\ \E sp \in student_profiles : sp.student_id = StdId(sp.user)

(* ------------------------------ C17 ----------------------------------- *)
\* C17: through SchoolUserDetailView a School Admin reaches only teachers and
\* students of their own school; stated for DELETE: a deactivation of a user
\* whose school is not the requester's fails with 404 or 403 and changes no
\* row, and the user of one that succeeds is a teacher or a student, never a
\* SCHOOL_ADMIN or a SUPER_ADMIN
C17_SchoolAdminManagesOwnTeachersAndStudents ==
    [][last'.op = "SchoolUserDestroy" =>
          \A r \in Requesters, pk \in UserIds :
             SchoolUserDestroy(r, pk) =>
                /\ users[pk].school # users[r].school
                      => (last'.status \in {403, 404} /\ UNCHANGED db)
                /\ last'.status = 200
                      => users[pk].role \in {"TEACHER", "STUDENT"}]_vars

(* ------------------------------ C20 ----------------------------------- *)
\* C20: the user row a registration view adds has the role of the view,
\* SCHOOL_ADMIN, TEACHER or STUDENT, and for the teacher and student views
\* the school of the requester, whatever role and school the body names
C20_CreateViewsOverridePayload ==
    [][(last'.op \in RegistrationViews /\ Len(users') > Len(users)) =>
          \A r \in Requesters, p \in RegistrationPayloads :
             RegistrationStep(last'.op, r, p) =>
                LET new == users'[Len(users')]
                IN  /\ Len(users') = Len(users) + 1
                    /\ new.email = p.email
                    /\ CASE last'.op = "SchoolAdminCreate" ->
                               new.role = "SCHOOL_ADMIN"
                         [] last'.op = "TeacherCreate" ->
                               new.role = "TEACHER" /\ new.school = users[r].school
                         [] last'.op = "StudentCreate" ->
                               new.role = "STUDENT" /\ new.school = users[r].school]_vars

\* a student registration whose body named another school than the
\* requester's created a student of the requester's school
C20_Witness ==
    /\ last.op = "StudentCreate"
    /\ last.status = 201
    /\ last.data.role = "STUDENT"
    /\ last.data.school # users[Len(users)].school
    /\ users[Len(users)].role = "STUDENT"
    /\ users[Len(users)].school # None

(* ============ concurrent requests that create users =================== *)
\* Requests are handled by independent workers: between the serializer's
\* validation (its look-up of the email) and the inserts of the handler,
\* other requests may run.  pending holds the requests that have passed
\* validation and have inserts left to do.
Remove(q, i) == SubSeq(q, 1, i - 1) \o SubSeq(q, i + 1, Len(q))

\* the data the view of op saves for payload p of requester u
SavedBy(op, u, p) ==
    CASE op = "SchoolAdminCreate" -> SchoolAdminSaved(u, p)
      [] op = "TeacherCreate" -> TeacherSaved(u, p)
      [] op = "StudentCreate" -> StudentSaved(u, p)

\* what a step of a creating request leaves untouched
outside_creation == <<schools, content, tokens>>

\* is_valid of a registration view: a turned-down request ends here, one
\* that passes goes on to perform_create later
RegistrationValidated(r, op, p) ==
    /\ HasPermission(op, RequestUser(r))
    /\ Len(pending) < MaxInFlight
    /\ IF RegistrationErrors(p) # NoErrors
       THEN Reject(op, 400, 0, RegistrationErrors(p))
       ELSE /\ pending' = Append(pending,
                                [op |-> op, data |-> p,
                                 saved |-> SavedBy(op, RequestUser(r), p)])
            /\ last' = Response(op, 0, 0, NoErrors, p, 0)
            /\ UNCHANGED db
            /\ UNCHANGED <<content, tokens>>

\* perform_create of the registration request pending[i]
RegistrationPerformed(i) ==
    /\ i \in DOMAIN pending
    /\ pending[i].op \in {"SchoolAdminCreate", "TeacherCreate", "StudentCreate"}
    /\ LET out == RegistrationCreate(pending[i].saved)
       IN  /\ users' = out.users
           /\ teacher_profiles' = out.teacher_profiles
           /\ student_profiles' = out.student_profiles
           /\ last' = Response(pending[i].op, out.status, 0, NoErrors,
                               pending[i].data, 0)
    /\ pending' = Remove(pending, i)
    /\ UNCHANGED outside_creation

\* is_valid of BulkStudentCreateView.post
BulkValidated(r, batch) ==
    /\ IsSchoolAdmin(RequestUser(r))
    /\ Len(pending) < MaxInFlight
    /\ IF BulkErrors(batch) # NoErrors
       THEN Reject("BulkStudentCreate", 400, 0, BulkErrors(batch))
       ELSE /\ pending' = Append(pending,
                                [op |-> "BulkStudentCreate", data |-> batch,
                                 school |-> RequestUser(r).school, k |-> 1])
            /\ last' = Response("BulkStudentCreate", 0, 0, NoErrors, batch, 0)
            /\ UNCHANGED db
            /\ UNCHANGED <<content, tokens>>

\* one turn of the loop of the bulk request pending[i]: entry k
BulkEntryCreated(i) ==
    /\ i \in DOMAIN pending
    /\ pending[i].op = "BulkStudentCreate"
    /\ LET req == pending[i]
           out == BulkLoop(<<req.data[req.k]>>, 1, users, student_profiles,
                           req.school)
       IN  /\ users' = out.users
           /\ student_profiles' = out.student_profiles
           /\ IF out.status = 500
              THEN /\ last' = Response(req.op, 500, 0, NoErrors, req.data, req.k)
                   /\ pending' = Remove(pending, i)
              ELSE IF req.k = Len(req.data)
              THEN /\ last' = Response(req.op, 201, 0, NoErrors, req.data, 0)
                   /\ pending' = Remove(pending, i)
              ELSE /\ last' = Response(req.op, 0, 0, NoErrors, req.data, 0)
                   /\ pending' = [pending EXCEPT ![i].k = req.k + 1]
    /\ UNCHANGED teacher_profiles
    /\ UNCHANGED outside_creation

RacePayloads ==
    [email : {<<"b", "x.com">>, <<"c", "x.com">>}, first_name : {"n1"},
     role : {"STUDENT"}, school : {1},
     password : {"pwA"}, password_confirm : {"pwA"}]

RaceEntries ==
    {Entry(Required, <<"b", "x.com">>, "S2", "", ""),
     Entry(Required, <<"b", "X.com">>, "S2", "", "")}

RaceBatches == SeqsUpTo(RaceEntries, MaxBatch)

RaceDeniedViews == {"TeacherCreate", "BulkStudentCreate"}

RaceNext ==
    \/ \E r \in Requesters, op \in {"TeacherCreate", "StudentCreate"},
          p \in RacePayloads : RegistrationValidated(r, op, p)
    \/ \E i \in 1..MaxInFlight : RegistrationPerformed(i)
    \/ \E r \in Requesters, batch \in RaceBatches : BulkValidated(r, batch)
    \/ \E i \in 1..MaxInFlight : BulkEntryCreated(i)
    \/ \E r \in Requesters, op \in RaceDeniedViews : PermissionDenied(r, op)

RaceSpec == TenantInit /\ [][RaceNext]_vars

(* ------------------------------ C19 ----------------------------------- *)
\* C19: under every interleaving of the validations and the inserts of
\* concurrent registrations and bulk creations no two user rows have the
\* same email
C19_EmailUniqueUnderConcurrency ==
    \A i, j \in UserIds : users[i].email = users[j].email => i = j

\* a registration that had passed validation was refused by the insert (500)
\* because a concurrent request had stored its email in between
C19_Witness ==
    /\ last.op \in {"TeacherCreate", "StudentCreate"}
    /\ last.status = 500
    /\ EmailExists(users, last.data.email)
    /\ Cardinality({i \in UserIds : users[i].email = last.data.email}) = 1

(* ============== the account views: the passwords ====================== *)
\* user.check_password(raw): the stored hash is the hash of raw
CheckPassword(user, raw) == user.password = MakePassword(raw)

ChangePasswordFields == {"old_password", "new_password", "new_password_confirm"}

\* a serializer without validate_old_password
ValidateOldPasswordSkipped(u, value) == NoErrors

\* ChangePasswordSerializer.validate_old_password
ValidateOldPassword(u, value) ==
    ErrorIf(~CheckPassword(u, value), "old_password: Old password is incorrect.")

\* ChangePasswordSerializer.validate
ChangePasswordValidate(p) ==
    ErrorIf(p.new_password # p.new_password_confirm,
            "new_password: Password fields didn't match.")

\* is_valid: the three fields are required; validate_old_password runs on a
\* field that is there; validate runs only when every field passed
ChangePasswordErrors(u, p) ==
    LET required == {f \o ": This field is required." :
                        f \in ChangePasswordFields \ p.keys}
        old == IF "old_password" \in p.keys
               THEN ValidateOldPassword(u, p.old_password) ELSE NoErrors
    IN  IF required \cup old # NoErrors THEN required \cup old
        ELSE ChangePasswordValidate(p)

\* ChangePasswordView.update (PUT and PATCH): get_object is request.user
ChangePassword(r, p) ==
    /\ is_authenticated(RequestUser(r))
    /\ LET user == RequestUser(r)
       IN  IF ChangePasswordErrors(user, p) # NoErrors
           THEN Reject("ChangePassword", 400, r, ChangePasswordErrors(user, p))
           ELSE SaveUser("ChangePassword", 200, r,
                         [message |-> "Password changed successfully"],
                         [user EXCEPT !.password = MakePassword(p.new_password)])

\* EmailField: an address without domain part is not well-formed
WellFormedEmail(e) == e[1] # "" /\ e[2] # ""

\* PasswordResetRequestSerializer
PasswordResetErrors(p) ==
    IF "email" \notin p.keys THEN {"email: This field is required."}
    ELSE ErrorIf(~WellFormedEmail(p.email), "email: Enter a valid email address.")

\* a handler that answers 404 for an email no user has
PasswordResetResponseRevealing(us, p) ==
    IF PasswordResetErrors(p) # NoErrors
    THEN Response("PasswordResetRequest", 400, 0, PasswordResetErrors(p),
                  NoPayload, 0)
    ELSE IF EmailExists(us, p.email)
    THEN Response("PasswordResetRequest", 200, 0, NoErrors,
                  [email |-> p.email,
                   message |-> "Password reset link sent to email"], 0)
    ELSE Response("PasswordResetRequest", 404, 0, NoErrors,
                  [email |-> p.email, message |-> "No such user"], 0)

\* the response of password_reset_request to payload p when the users table
\* is us: User.objects.get(email=email) finds the row or raises DoesNotExist
PasswordResetResponse(us, p) ==
    IF PasswordResetErrors(p) # NoErrors
    THEN Response("PasswordResetRequest", 400, 0, PasswordResetErrors(p),
                  NoPayload, 0)
    ELSE IF EmailExists(us, p.email)
    THEN Response("PasswordResetRequest", 200, 0, NoErrors,
                  [email |-> p.email,
                   message |-> "Password reset link sent to email"], 0)
    ELSE Response("PasswordResetRequest", 200, 0, NoErrors,
                  [email |-> p.email,
                   message |-> "Password reset link sent to email"], 0)

\* password_reset_request: AllowAny, nothing is written
PasswordResetRequest(p) ==
    /\ last' = PasswordResetResponse(users, p)
    /\ UNCHANGED db
    /\ UNCHANGED elsewhere

Passwords == {"pwA", "pwB"}

ChangePasswordPayloads ==
    [keys : {ChangePasswordFields}, old_password : Passwords,
     new_password : Passwords, new_password_confirm : Passwords]
    \cup
    {[keys |-> {"new_password", "new_password_confirm"}, old_password |-> "",
      new_password |-> "pwB", new_password_confirm |-> "pwB"]}

PasswordResetPayloads ==
    [keys : {{"email"}},
     email : {<<"a", "x.com">>, <<"b", "x.com">>, <<"bad", "">>}]
    \cup {[keys |-> {}, email |-> EmptyEmail]}

AccountPayloads ==
    [email : {<<"b", "x.com">>}, first_name : {"n1"}, role : {"STUDENT"},
     school : {1}, password : {"pwA"}, password_confirm : {"pwA"}]

AccountDeniedViews == {"ChangePassword", "TeacherCreate"}

AccountNext ==
    \/ \E r \in Requesters, p \in ChangePasswordPayloads : ChangePassword(r, p)
    \/ \E p \in PasswordResetPayloads : PasswordResetRequest(p)
    \/ \E r \in Requesters, p \in AccountPayloads : TeacherCreate(r, p)
    \/ \E r \in Requesters, pk \in UserPks : SchoolUserDestroy(r, pk)
    \/ \E r \in Requesters, op \in AccountDeniedViews : PermissionDenied(r, op)

AccountSpec == TenantInit /\ [][AccountNext]_vars

(* ------------------------------ C21 ----------------------------------- *)
\* C21: a password change sets the requester's stored password to
\* new_password and answers 200 when old_password is the requester's current
\* password and new_password equals new_password_confirm; in every other
\* case it answers 400 and no password changes; the row of no other user
\* changes in either case
C21_ChangePasswordChecksOldAndConfirm ==
    [][last'.op = "ChangePassword" =>
          \/ last'.status \in {401, 403} /\ UNCHANGED db
          \/ \A r \in Requesters, p \in ChangePasswordPayloads :
                 ChangePassword(r, p) =>
                    /\ IF /\ ChangePasswordFields \subseteq p.keys
                          /\ users[r].password = MakePassword(p.old_password)
                          /\ p.new_password = p.new_password_confirm
                       THEN /\ last'.status = 200
                            /\ users' = [users EXCEPT
                                            ![r].password = MakePassword(p.new_password)]
                       ELSE /\ last'.status = 400
                            /\ UNCHANGED users
                    /\ \A i \in UserIds \ {r} : users'[i] = users[i]
                    /\ UNCHANGED <<schools, teacher_profiles, student_profiles>>]_vars

\* a user changed its password to another one while another user's stored
\* password is still the one it was created with
C21_Witness ==
    /\ last.op = "ChangePassword"
    /\ last.status = 200
    /\ users[last.pk].password = MakePassword("pwB")
    /\ \E i \in UserIds \ {last.pk} : users[i].password = MakePassword("pwA")

(* ------------------------------ C22 ----------------------------------- *)
\* the users table without the user of email e, and with one more user of
\* that email
WithoutEmail(us, e) == SelectSeq(us, LAMBDA u : u.email # e)
WithEmail(us, e) ==
    IF EmailExists(us, e) THEN us
    ELSE Append(us, UserRow(Len(us) + 1, e, "n1", "STUDENT", 1, "pwA"))

\* C22: the response of password_reset_request to a well-formed email is the
\* same, status and body, whether the users table holds a user of that email
\* or not, and the request changes no table
C22_PasswordResetDoesNotRevealEmail ==
    [][last'.op = "PasswordResetRequest" =>
          \A p \in PasswordResetPayloads :
             PasswordResetRequest(p) =>
                /\ UNCHANGED <<db, content, tokens>>
                /\ ("email" \in p.keys /\ WellFormedEmail(p.email)) =>
                      /\ last' = PasswordResetResponse(WithoutEmail(users, p.email), p)
                      /\ last' = PasswordResetResponse(WithEmail(users, p.email), p)]_vars

\* a reset asked for an email no user has was answered 200 with the message,
\* while the users table holds another email a reset can be asked for
C22_Witness ==
    /\ last.op = "PasswordResetRequest"
    /\ last.status = 200
    /\ ~EmailExists(users, last.data.email)
    /\ \E p \in PasswordResetPayloads : EmailExists(users, p.email)

(* ------------------------------ C23 ----------------------------------- *)
\* the role each registration view forces
ForcedRole(op) ==
    CASE op = "SchoolAdminCreate" -> "SCHOOL_ADMIN"
      [] op = "TeacherCreate" -> "TEACHER"
      [] op = "StudentCreate" -> "STUDENT"

\* C23: a registration that completes (201) adds one user whose role is the
\* role the view forces, whatever the payload names, and with it exactly one
\* TeacherProfile when that role is TEACHER, exactly one StudentProfile of
\* class level S1 and student_id STD followed by the user id padded with
\* zeros to six digits when it is STUDENT, and no profile otherwise
C23_ProfileMatchesSavedRole ==
    [][(last'.op \in RegistrationViews /\ last'.status = 201) =>
          LET id == Len(users')
              role == ForcedRole(last'.op)
          IN  /\ id = Len(users) + 1
              /\ users'[id].role = role
              /\ teacher_profiles \subseteq teacher_profiles'
              /\ student_profiles \subseteq student_profiles'
              /\ teacher_profiles' \ teacher_profiles =
                    IF role = "TEACHER" THEN {TeacherProfileRow(id)} ELSE {}
              /\ student_profiles' \ student_profiles =
                    IF role = "STUDENT"
                    THEN {StudentProfileRow(id, "S1",
                                            "STD" \o ZeroPad(ToDec(id), 6), "")}
                    ELSE {}
              /\ \A sp \in student_profiles' \ student_profiles :
                    Len(sp.student_id) = 9]_vars

\* the teacher view created a teacher with a TeacherProfile from a payload
\* that named the role STUDENT and no StudentProfile, while a School Admin
\* created earlier has no profile
C23_Witness ==
    /\ last.op = "TeacherCreate"
    /\ last.status = 201
    /\ last.data.role = "STUDENT"
    /\ TeacherProfileRow(Len(users)) \in teacher_profiles
    /\ \A sp \in student_profiles : sp.user # Len(users)
    /\ \E i \in UserIds : users[i].role = "SCHOOL_ADMIN" /\ ~HasProfile(i)

(* ------------------------------ C24 ----------------------------------- *)
\* entry j of a batch of n entries is in the tables after the step as the
\* j-th of the n users the step added: a STUDENT of the given school under
\* the given email, with the entry's password or the default one, and a
\* profile with the entry's class level, the entry's student_id or STD and
\* the padded user id, and the entry's contact fields or empty strings
EntryStored(batch, j, school, email) ==
    LET id == Len(users) + j
        e == batch[j]
        user == users'[id]
    IN  /\ user.role = "STUDENT"
        /\ user.school = school
        /\ user.email = email
        /\ user.password =
              MakePassword(IF "password" \in e.keys THEN e.password
                           ELSE "BioTutor2025!")
        /\ \E sp \in student_profiles' \ student_profiles :
              /\ sp.user = id
              /\ sp.class_level = e.class_level
              /\ sp.student_id = (IF "student_id" \in e.keys THEN e.student_id
                                  ELSE "STD" \o ZeroPad(ToDec(id), 6))
              /\ sp.phone_number =
                    (IF "phone_number" \in e.keys THEN e.phone_number ELSE "")
              /\ sp.parent_email =
                    (IF "parent_email" \in e.keys THEN e.parent_email ELSE "")
              /\ sp.parent_phone =
                    (IF "parent_phone" \in e.keys THEN e.parent_phone ELSE "")

\* a bulk request answered 201 added exactly one user and one profile per
\* entry, entry j stored under Email(j), and changed nothing else
BulkCreatedOnePairPerEntry(Email(_, _)) ==
    \A r \in Requesters, batch \in TenantBatches :
       BulkStudentCreate(r, batch) =>
          /\ Len(users') = Len(users) + Len(batch)
          /\ SubSeq(users', 1, Len(users)) = users
          /\ student_profiles \subseteq student_profiles'
          /\ Cardinality(student_profiles' \ student_profiles) = Len(batch)
          /\ UNCHANGED <<schools, teacher_profiles>>
          /\ \A j \in 1..Len(batch) :
                EntryStored(batch, j, users[r].school, Email(batch, j))

\* the email of entry j as the request gives it
EntryEmail(batch, j) == batch[j].email
\* the email of entry j with its domain part in lower case
EntryEmailNormalized(batch, j) == <<batch[j].email[1], Lower(batch[j].email[2])>>

C25_SchoolCreateRejectsSameNameAnyCase ==
    [][last'.op = "SchoolCreate" =>
          \A r \in Requesters, name \in SchoolsNames :
             (/\ SchoolCreate(r, name)
              /\ \E i \in SchoolPks : Lower(schools[i].name) = Lower(name))
             => /\ last'.status = 400
                /\ last'.errors # NoErrors
                /\ UNCHANGED db]_vars

\* a creation was turned down for a name that differs from the name of an
\* existing school in letter case only, after another creation had succeeded
C25_Witness ==
    /\ last.op = "SchoolCreate"
    /\ last.status = 400
    /\ \A i \in SchoolPks : schools[i].name # last.data.name
    /\ \E i \in SchoolPks : Lower(schools[i].name) = Lower(last.data.name)
    /\ Len(schools) = 3

(* ------------------------------ C26 ----------------------------------- *)
\* C26: no two schools have names that are equal when letter case is ignored
C26_SchoolNamesUniqueIgnoringCase ==
    \A i, j \in SchoolPks :
       Lower(schools[i].name) = Lower(schools[j].name) => i = j

(* ------------------------------ C27 ----------------------------------- *)
\* C27: no request to SchoolUserDetailView, the view a School Admin manages
\* users through, succeeds on a SUPER_ADMIN user: an update or a deactivation
\* answered 200 never names a user whose role is SUPER_ADMIN
C27_SchoolAdminNeverReachesSuperAdmin ==
    [][(/\ last'.op \in {"SchoolUserUpdate", "SchoolUserDestroy"}
        /\ last'.status = 200)
          => users[last'.pk].role # "SUPER_ADMIN"]_vars

(* ========= student ids chosen by the caller and generated ============= *)
IdsPayloads ==
    [email : {<<"c", "x.com">>, <<"d", "x.com">>}, first_name : {"n1"},
     role : {"STUDENT"}, school : {1},
     password : {"pwA"}, password_confirm : {"pwA"}]

\* a batch entry may carry any string as its student_id
IdsEntries ==
    {Entry(Required \cup {"student_id"}, <<"b", "x.com">>, "S2", "STD000004", ""),
     Entry(Required, <<"c", "x.com">>, "S3", "", ""),
     Entry(Required, <<"d", "x.com">>, "S3", "", "")}

IdsBatches == SeqsUpTo(IdsEntries, MaxBatch)

IdsDeniedViews == {"StudentCreate", "BulkStudentCreate"}

IdsNext ==
    \/ \E r \in Requesters, p \in IdsPayloads : StudentCreate(r, p)
    \/ \E r \in Requesters, batch \in IdsBatches : BulkStudentCreate(r, batch)
    \/ \E r \in Requesters, pk \in UserPks : SchoolUserDestroy(r, pk)
    \/ \E r \in Requesters, op \in IdsDeniedViews : PermissionDenied(r, op)

IdsSpec == TenantInit /\ [][IdsNext]_vars

(* ------------------------------ C28 ----------------------------------- *)
\* C28: the generated student_id never meets one already stored: a student
\* registration that passed validation is answered 201 and its user has a
\* profile, and the creation loop of a bulk request never raises on the
\* profile of an entry without student_id, which would leave its user
\* without profile
C28_GeneratedStudentIdNeverCollides ==
    [][/\ (last'.op = "StudentCreate" /\ last'.status \notin {400, 401, 403})
             => /\ last'.status = 201
                /\ \A i \in (Len(users) + 1)..Len(users') :
                      \E sp \in student_profiles' : sp.user = i
       /\ (/\ last'.op = "BulkStudentCreate"
           /\ last'.status = 500
           /\ "student_id" \notin last'.data[last'.failed_at].keys)
             => \A i \in (Len(users) + 1)..Len(users') :
                   \E sp \in student_profiles' : sp.user = i]_vars

(* ========= the requests that write to existing users and schools ====== *)
\* the payloads of a PATCH to a user: one key or several, among them keys
\* the update serializer does not have
FrameUserPayloads ==
    {[keys |-> {"is_active"}, is_active |-> TRUE],
     [keys |-> {"is_active"}, is_active |-> FALSE],
     [keys |-> {"first_name", "email", "role", "school"}, first_name |-> "n2",
      email |-> <<"z", "x.com">>, role |-> "SUPER_ADMIN", school |-> None]}

FrameSchoolPayloads ==
    {[keys |-> {"is_active"}, is_active |-> TRUE]}

FramePasswordPayloads ==
    {[keys |-> ChangePasswordFields, old_password |-> "pwA",
      new_password |-> "pwB", new_password_confirm |-> "pwB"]}

FrameProfilePayloads ==
    {[keys |-> {"class_level"}, class_level |-> "S4"]}

FrameStudentPayloads ==
    {[email |-> <<"b", "x.com">>, first_name |-> "n1", role |-> "STUDENT",
      school |-> 1, password |-> "pwA", password_confirm |-> "pwA"]}

FrameDeniedViews == {"UserUpdate", "ChangePassword"}

FrameNext ==
    \/ \E r \in Requesters, p \in FrameStudentPayloads : StudentCreate(r, p)
    \/ \E r \in Requesters, pk \in UserPks, p \in FrameUserPayloads :
           UserUpdate(r, pk, p)
    \/ \E r \in Requesters, pk \in UserPks : UserDestroy(r, pk)
    \/ \E r \in Requesters, pk \in UserPks, p \in FrameUserPayloads :
           SchoolUserUpdate(r, pk, p)
    \/ \E r \in Requesters, pk \in UserPks : SchoolUserDestroy(r, pk)
    \/ \E r \in Requesters, pk \in SchoolUrlPks, p \in FrameSchoolPayloads :
           SchoolUpdate(r, pk, p)
    \/ \E r \in Requesters, pk \in SchoolUrlPks : SchoolDestroy(r, pk)
    \/ \E r \in Requesters, p \in FramePasswordPayloads : ChangePassword(r, p)
    \/ \E r \in Requesters, p \in FrameProfilePayloads :
           StudentProfileUpdate(r, "PATCH", p)
    \/ \E r \in Requesters, op \in FrameDeniedViews : PermissionDenied(r, op)

FrameSpec == TenantInit /\ [][FrameNext]_vars

(* ------------------------------ C29 ----------------------------------- *)
\* C29: no request changes the email, the role or the school of a user that
\* exists: updates through UserDetailView and SchoolUserDetailView, profile
\* updates, password changes and deactivations leave the three fields of
\* every user as they were, and no user row goes away
C29_EmailRoleSchoolFixedAtCreation ==
    [][/\ Len(users') >= Len(users)
       /\ \A i \in UserIds :
             /\ users'[i].email = users[i].email
             /\ users'[i].role = users[i].role
             /\ users'[i].school = users[i].school]_vars

\* an update whose payload named another role, school and email for the
\* user was answered 200, and the user has the payload's first name only
C29_Witness ==
    /\ last.op \in {"UserUpdate", "SchoolUserUpdate"}
    /\ last.status = 200
    /\ {"role", "school", "email"} \subseteq last.data.keys
    /\ users[last.pk].first_name = last.data.first_name
    /\ users[last.pk].role # last.data.role
    /\ users[last.pk].email # last.data.email
    /\ users[last.pk].school # last.data.school

(* ------------------------------ C30 ----------------------------------- *)
\* the payload of an update that sets is_active to True and nothing else
Reactivation(p) == p.keys = {"is_active"} /\ p.is_active

====
